---- MODULE Spec2Model ----
\* A model of the Rhum plan builder (mod.ts, class RhumRunner): the registration
\* cursor, the plan document it fills, the display-name formatter, and the
\* hand-over of the document to the execution engine by run().
EXTENDS Integers, Sequences, FiniteSets, TLC

\* ---------------------------------------------------------------- bounds
\* Number of builder calls (testPlan, testSuite, testCase, hooks, run) explored.
MaxCalls == 4
\* Number of builder calls of one well-formed registration script ending in run().
MaxRunCalls == 6
\* Nesting depth of testPlan / testSuite bodies that are executing at once.
MaxDepth == 3
\* Number of builder calls of one registration script of plans, suites and cases.
MaxNameCalls == 9

\* ---------------------------------------------------------------- inputs
\* Names are JavaScript strings; "" is falsy, "1" is an integer-like key.
PlanNames == {"", "p"}
SuiteNames == {"", "a", "1"}
Callbacks == {"f", "g"}
\* (name, testFn) pairs passed to testCase
Cases == {<<"c", "t">>, <<"dd", "u">>}
Null == "null"
HookKinds == {"before_all", "before_each", "after_each", "after_all"}

\* src/mod.ts:84
extraChars == 10

VARIABLES
  passed_in_test_plan,     \* mod.ts:128
  passed_in_test_suite,    \* mod.ts:129
  test_plan_in_progress,   \* mod.ts:130
  test_suite_in_progress,  \* mod.ts:131
  plan,                    \* mod.ts:132  the plan document (IPlan)
  stack,                   \* testPlan / testSuite bodies that are executing
  engine,                  \* what run() handed to the execution engine
  calls,                   \* number of builder calls made so far
  last,                    \* the last builder call and its outcome
  declared,                \* history: suite names in order of first testSuite call
  fresh,                   \* history: suites registered since the latest testPlan call
  since,                   \* history: registrations routed to a suite since its latest testSuite call
  unplanned,               \* history: something was registered while no testPlan body was executing
  emitted                  \* history: every display name computed, with the cursor it was computed under

vars == <<passed_in_test_plan, passed_in_test_suite, test_plan_in_progress,
          test_suite_in_progress, plan, stack, engine, calls, last,
          declared, fresh, since, unplanned, emitted>>

\* ---------------------------------------------------- JavaScript objects
\* plan.suites is a plain object: an ordered list of own properties. Entries
\* are kept in creation order; assignment to an existing key keeps its place.
Has(obj, k) == \E i \in 1..Len(obj) : obj[i].key = k

Get(obj, k) == obj[CHOOSE i \in 1..Len(obj) : obj[i].key = k].value

Put(obj, k, v) ==
  IF Has(obj, k)
    THEN [i \in 1..Len(obj) |-> IF obj[i].key = k THEN [key |-> k, value |-> v] ELSE obj[i]]
    ELSE Append(obj, [key |-> k, value |-> v])

\* Canonical numeric strings that are array indices, with their values.
IndexValue == [n \in {"1", "2"} |-> IF n = "1" THEN 1 ELSE 2]

IsArrayIndex(k) == k \in DOMAIN IndexValue

CreationOrder(obj) == [i \in 1..Len(obj) |-> obj[i].key]

RECURSIVE SortIndices(_)
SortIndices(S) ==
  IF S = {} THEN <<>>
  ELSE LET m == CHOOSE k \in S : \A o \in S : IndexValue[k] <= IndexValue[o]
       IN <<m>> \o SortIndices(S \ {m})

\* Object.keys: integer-like keys ascending, then the others in creation order.
ObjectKeys(obj) ==
  LET order == CreationOrder(obj)
      ints == {order[i] : i \in {j \in 1..Len(order) : IsArrayIndex(order[j])}}
  IN SortIndices(ints) \o SelectSeq(order, LAMBDA k : ~IsArrayIndex(k))

\* ------------------------------------------------------------ the document
EmptySuite ==
  [cases |-> <<>>,
   after_all_case_hook |-> Null,
   after_each_case_hook |-> Null,
   before_all_case_hook |-> Null,
   before_each_case_hook |-> Null]

EmptyPlan ==
  [suites |-> <<>>,
   after_all_suite_hook |-> Null,
   after_each_suite_hook |-> Null,
   before_all_suite_hook |-> Null,
   before_each_suite_hook |-> Null]

NoHooks == [k \in HookKinds |-> Null]

EmptySince == [cases |-> <<>>, hooks |-> NoHooks]

NoCall == [op |-> "none", name |-> "", fn |-> Null, raised |-> FALSE, replaced |-> FALSE]

Call(op, name, fn) == [op |-> op, name |-> name, fn |-> fn, raised |-> FALSE, replaced |-> FALSE]

Truthy(s) == s # ""

Init ==
  /\ passed_in_test_plan = ""
  /\ passed_in_test_suite = ""
  /\ test_plan_in_progress = ""
  /\ test_suite_in_progress = ""
  /\ plan = EmptyPlan
  /\ stack = <<>>
  /\ engine = [handed |-> FALSE, executed |-> <<>>]
  /\ calls = 0
  /\ last = NoCall
  /\ declared = <<>>
  /\ fresh = {}
  /\ since = [n \in SuiteNames |-> EmptySince]
  /\ unplanned = FALSE
  /\ emitted = <<>>

\* ------------------------------------------------------- executing bodies
InPlanBody == \E i \in 1..Len(stack) : stack[i].kind = "testPlan"

SuiteInProgress == \E i \in 1..Len(stack) : stack[i].kind = "testSuite"

\* Name of the innermost testSuite call whose body is executing.
InnermostSuite ==
  LET top == CHOOSE i \in 1..Len(stack) :
               /\ stack[i].kind = "testSuite"
               /\ \A j \in (i + 1)..Len(stack) : stack[j].kind # "testSuite"
  IN stack[top].name

\* ------------------------------------------------- display-name formatter
\* A display name is a list of pieces; [ch, n] is the string ch repeated n times.
Rep(ch, n) == [ch |-> ch, n |-> n]

Lit(s) == [ch |-> s, n |-> 1]

Backspace == "\\u0008"

\* formatTestCaseName: the name it returns and the markers it leaves behind.
formatTestCaseName(name) ==
  IF test_plan_in_progress # passed_in_test_plan
    THEN [plan_in_progress |-> passed_in_test_plan,
          suite_in_progress |-> passed_in_test_suite,
          newName |-> << Rep(Backspace, Len(name) + extraChars),
                         Rep(" ", Len(name) + extraChars),
                         Lit("\n"), Lit(passed_in_test_plan),
                         Lit("\n    "), Lit(passed_in_test_suite),
                         Lit("\n        "), Lit(name), Lit(" ... ") >>]
    ELSE IF test_suite_in_progress # passed_in_test_suite
      THEN [plan_in_progress |-> test_plan_in_progress,
            suite_in_progress |-> passed_in_test_suite,
            newName |-> << Rep(Backspace, Len(name) + extraChars),
                           Lit("    "), Lit(passed_in_test_suite),
                           Rep(" ", Len(name) + extraChars),
                           Lit("\n        "), Lit(name), Lit(" ... ") >>]
      ELSE [plan_in_progress |-> test_plan_in_progress,
            suite_in_progress |-> test_suite_in_progress,
            newName |-> << Rep(Backspace, Len(name) + extraChars),
                           Lit("        "), Lit(name), Lit(" ... ") >>]

\* ------------------------------------------------------------- exceptions
\* A TypeError leaves the builder as it was and unwinds the executing bodies
\* up to wherever the author catches it (or all of them).
Throw(op, name, fn) ==
  /\ last' = [Call(op, name, fn) EXCEPT !.raised = TRUE]
  /\ \E d \in 0..Len(stack) : stack' = SubSeq(stack, 1, d)
  /\ UNCHANGED <<passed_in_test_plan, passed_in_test_suite, test_plan_in_progress,
                 test_suite_in_progress, plan, engine, emitted, declared, fresh, since,
                 unplanned>>

\* ------------------------------------------------------------------ hooks
\* Hook registration that keeps a callback already in the slot.
RegisterHook_firstWins(op, kind, suiteField, planField, cb) ==
  /\ calls' = calls + 1
  /\ IF Truthy(passed_in_test_plan) /\ Truthy(passed_in_test_suite)
       THEN IF Has(plan.suites, passed_in_test_suite)
              THEN /\ unplanned' = (unplanned \/ ~InPlanBody)
                   /\ plan' = [plan EXCEPT !.suites =
                          Put(@, passed_in_test_suite,
                              [Get(@, passed_in_test_suite) EXCEPT ![suiteField] =
                                 IF @ = Null THEN cb ELSE @])]
                   /\ since' = [since EXCEPT ![passed_in_test_suite].hooks[kind] = cb]
                   /\ last' = [Call(op, "", cb) EXCEPT !.replaced =
                          Get(plan.suites, passed_in_test_suite)[suiteField] \notin {Null, cb}]
                   /\ UNCHANGED <<passed_in_test_plan, passed_in_test_suite,
                                  test_plan_in_progress, test_suite_in_progress,
                                  stack, engine, emitted, declared, fresh>>
              ELSE Throw(op, "", cb)
       ELSE /\ IF Truthy(passed_in_test_plan) /\ ~Truthy(passed_in_test_suite)
                 THEN plan' = [plan EXCEPT ![planField] = IF @ = Null THEN cb ELSE @]
                 ELSE plan' = plan
            /\ unplanned' = (unplanned \/ ~InPlanBody)
            /\ last' = [Call(op, "", cb) EXCEPT !.replaced =
                   /\ Truthy(passed_in_test_plan)
                   /\ plan[planField] \notin {Null, cb}]
            /\ UNCHANGED <<passed_in_test_plan, passed_in_test_suite,
                           test_plan_in_progress, test_suite_in_progress,
                           stack, engine, emitted, declared, fresh, since>>

\* The shared shape of the four hook registrations: suiteField / planField are
\* the slots the method writes, kind is the slot's name in the history.
RegisterHook(op, kind, suiteField, planField, cb) ==
  /\ calls' = calls + 1
  /\ IF Truthy(passed_in_test_plan) /\ Truthy(passed_in_test_suite)
       THEN IF Has(plan.suites, passed_in_test_suite)
              THEN /\ unplanned' = (unplanned \/ ~InPlanBody)
                   /\ plan' = [plan EXCEPT !.suites =
                          Put(@, passed_in_test_suite,
                              [Get(@, passed_in_test_suite) EXCEPT ![suiteField] = cb])]
                   /\ since' = [since EXCEPT ![passed_in_test_suite].hooks[kind] = cb]
                   /\ last' = [Call(op, "", cb) EXCEPT !.replaced =
                          Get(plan.suites, passed_in_test_suite)[suiteField] \notin {Null, cb}]
                   /\ UNCHANGED <<passed_in_test_plan, passed_in_test_suite,
                                  test_plan_in_progress, test_suite_in_progress,
                                  stack, engine, emitted, declared, fresh>>
              ELSE Throw(op, "", cb)
       ELSE /\ IF Truthy(passed_in_test_plan) /\ ~Truthy(passed_in_test_suite)
                 THEN plan' = [plan EXCEPT ![planField] = cb]
                 ELSE plan' = plan
            /\ unplanned' = (unplanned \/ ~InPlanBody)
            /\ last' = [Call(op, "", cb) EXCEPT !.replaced =
                   /\ Truthy(passed_in_test_plan)
                   /\ plan[planField] \notin {Null, cb}]
            /\ UNCHANGED <<passed_in_test_plan, passed_in_test_suite,
                           test_plan_in_progress, test_suite_in_progress,
                           stack, engine, emitted, declared, fresh, since>>

beforeEach(cb) ==
  RegisterHook("beforeEach", "before_each", "before_each_case_hook", "before_each_suite_hook", cb)

afterEach(cb) ==
  RegisterHook("afterEach", "after_each", "after_each_case_hook", "after_each_suite_hook", cb)

afterAll(cb) ==
  RegisterHook("afterAll", "after_all", "after_all_case_hook", "after_all_suite_hook", cb)

\* beforeAll pasted from afterAll with the slots left as they were.
beforeAll_afterAllSlots(cb) ==
  RegisterHook("beforeAll", "before_all", "after_all_case_hook", "after_all_suite_hook", cb)

beforeAll(cb) ==
  RegisterHook("beforeAll", "before_all", "before_all_case_hook", "before_all_suite_hook", cb)

\* testCase that computes the display name before it reaches for the record.
testCase_formatFirst(name, testFn) ==
  /\ calls' = calls + 1
  /\ LET f == formatTestCaseName(name)
         rec == [name |-> name, new_name |-> f.newName, testFn |-> testFn]
     IN /\ test_plan_in_progress' = f.plan_in_progress
        /\ test_suite_in_progress' = f.suite_in_progress
        /\ IF Has(plan.suites, passed_in_test_suite)
             THEN /\ plan' = [plan EXCEPT !.suites =
                         Put(@, passed_in_test_suite,
                             [Get(@, passed_in_test_suite) EXCEPT !.cases = Append(@, rec)])]
                  /\ since' = [since EXCEPT ![passed_in_test_suite].cases =
                                                Append(@, <<name, testFn>>)]
                  /\ last' = Call("testCase", name, testFn)
                  /\ emitted' = Append(emitted, [plan |-> passed_in_test_plan,
                                                  suite |-> passed_in_test_suite,
                                                  new_name |-> f.newName])
                  /\ unplanned' = (unplanned \/ ~InPlanBody)
                  /\ UNCHANGED <<passed_in_test_plan, passed_in_test_suite, stack,
                                 engine, declared, fresh>>
             ELSE /\ last' = [Call("testCase", name, testFn) EXCEPT !.raised = TRUE]
                  /\ \E d \in 0..Len(stack) : stack' = SubSeq(stack, 1, d)
                  /\ UNCHANGED <<passed_in_test_plan, passed_in_test_suite, plan,
                                 engine, emitted, declared, fresh, since, unplanned>>

\* ------------------------------------------------------------ registration
\* testCase with unshift in place of push: the new record goes to the front.
testCase_unshift(name, testFn) ==
  /\ calls' = calls + 1
  /\ IF Has(plan.suites, passed_in_test_suite)
       THEN LET f == formatTestCaseName(name)
                rec == [name |-> name, new_name |-> f.newName, testFn |-> testFn]
            IN /\ plan' = [plan EXCEPT !.suites =
                      Put(@, passed_in_test_suite,
                          [Get(@, passed_in_test_suite) EXCEPT !.cases = <<rec>> \o @])]
               /\ test_plan_in_progress' = f.plan_in_progress
               /\ test_suite_in_progress' = f.suite_in_progress
               /\ since' = [since EXCEPT ![passed_in_test_suite].cases =
                                             Append(@, <<name, testFn>>)]
               /\ last' = Call("testCase", name, testFn)
               /\ emitted' = Append(emitted, [plan |-> passed_in_test_plan,
                                               suite |-> passed_in_test_suite,
                                               new_name |-> f.newName])
               /\ unplanned' = (unplanned \/ ~InPlanBody)
               /\ UNCHANGED <<passed_in_test_plan, passed_in_test_suite, stack,
                              engine, declared, fresh>>
       ELSE Throw("testCase", name, testFn)

testCase(name, testFn) ==
  /\ calls' = calls + 1
  /\ IF Has(plan.suites, passed_in_test_suite)
       THEN LET f == formatTestCaseName(name)
                rec == [name |-> name, new_name |-> f.newName, testFn |-> testFn]
            IN /\ plan' = [plan EXCEPT !.suites =
                      Put(@, passed_in_test_suite,
                          [Get(@, passed_in_test_suite) EXCEPT !.cases = Append(@, rec)])]
               /\ test_plan_in_progress' = f.plan_in_progress
               /\ test_suite_in_progress' = f.suite_in_progress
               /\ since' = [since EXCEPT ![passed_in_test_suite].cases =
                                             Append(@, <<name, testFn>>)]
               /\ last' = Call("testCase", name, testFn)
               /\ emitted' = Append(emitted, [plan |-> passed_in_test_plan,
                                               suite |-> passed_in_test_suite,
                                               new_name |-> f.newName])
               /\ unplanned' = (unplanned \/ ~InPlanBody)
               /\ UNCHANGED <<passed_in_test_plan, passed_in_test_suite, stack,
                              engine, declared, fresh>>
       ELSE Throw("testCase", name, testFn)

\* testPlan without the reset of the suite cursor.
testPlan_keepSuite(name) ==
  /\ Len(stack) < MaxDepth
  /\ calls' = calls + 1
  /\ passed_in_test_plan' = name
  /\ stack' = Append(stack, [kind |-> "testPlan", name |-> name])
  /\ fresh' = {}
  /\ last' = Call("testPlan", name, Null)
  /\ UNCHANGED <<passed_in_test_suite, test_plan_in_progress, test_suite_in_progress,
                 plan, engine, emitted, declared, since, unplanned>>

\* testPlan up to the point where the body starts to execute.
testPlan(name) ==
  /\ Len(stack) < MaxDepth
  /\ calls' = calls + 1
  /\ passed_in_test_suite' = ""
  /\ passed_in_test_plan' = name
  /\ stack' = Append(stack, [kind |-> "testPlan", name |-> name])
  /\ fresh' = {}
  /\ last' = Call("testPlan", name, Null)
  /\ UNCHANGED <<test_plan_in_progress, test_suite_in_progress, plan, engine, emitted,
                 declared, since, unplanned>>

\* testSuite that moves the cursor without creating the record.
testSuite_noRecord(name) ==
  /\ Len(stack) < MaxDepth
  /\ calls' = calls + 1
  /\ passed_in_test_suite' = name
  /\ stack' = Append(stack, [kind |-> "testSuite", name |-> name])
  /\ unplanned' = (unplanned \/ ~InPlanBody)
  /\ last' = Call("testSuite", name, Null)
  /\ UNCHANGED <<passed_in_test_plan, test_plan_in_progress, test_suite_in_progress,
                 plan, engine, emitted, declared, fresh, since>>

\* testSuite that assigns a new suite map holding only the new record.
testSuite_newMap(name) ==
  /\ Len(stack) < MaxDepth
  /\ calls' = calls + 1
  /\ passed_in_test_suite' = name
  /\ plan' = [plan EXCEPT !.suites = << [key |-> name, value |-> EmptySuite] >>]
  /\ stack' = Append(stack, [kind |-> "testSuite", name |-> name])
  /\ declared' = IF \E i \in 1..Len(declared) : declared[i] = name
                   THEN declared ELSE Append(declared, name)
  /\ fresh' = fresh \cup {name}
  /\ since' = [since EXCEPT ![name] = EmptySince]
  /\ unplanned' = (unplanned \/ ~InPlanBody)
  /\ last' = [Call("testSuite", name, Null) EXCEPT !.replaced =
                 Has(plan.suites, name) /\ Get(plan.suites, name) # EmptySuite]
  /\ UNCHANGED <<passed_in_test_plan, test_plan_in_progress, test_suite_in_progress,
                 engine, emitted>>

\* testSuite that keeps an existing record of the name instead of replacing it.
testSuite_merge(name) ==
  /\ Len(stack) < MaxDepth
  /\ calls' = calls + 1
  /\ passed_in_test_suite' = name
  /\ plan' = IF Has(plan.suites, name) THEN plan
             ELSE [plan EXCEPT !.suites = Put(@, name, EmptySuite)]
  /\ stack' = Append(stack, [kind |-> "testSuite", name |-> name])
  /\ declared' = IF \E i \in 1..Len(declared) : declared[i] = name
                   THEN declared ELSE Append(declared, name)
  /\ fresh' = fresh \cup {name}
  /\ since' = [since EXCEPT ![name] = EmptySince]
  /\ unplanned' = (unplanned \/ ~InPlanBody)
  /\ last' = [Call("testSuite", name, Null) EXCEPT !.replaced =
                 Has(plan.suites, name) /\ Get(plan.suites, name) # EmptySuite]
  /\ UNCHANGED <<passed_in_test_plan, test_plan_in_progress, test_suite_in_progress,
                 engine, emitted>>

\* testSuite up to the point where the body starts to execute.
testSuite(name) ==
  /\ Len(stack) < MaxDepth
  /\ calls' = calls + 1
  /\ passed_in_test_suite' = name
  /\ plan' = [plan EXCEPT !.suites = Put(@, name, EmptySuite)]
  /\ stack' = Append(stack, [kind |-> "testSuite", name |-> name])
  /\ declared' = IF \E i \in 1..Len(declared) : declared[i] = name
                   THEN declared ELSE Append(declared, name)
  /\ fresh' = fresh \cup {name}
  /\ since' = [since EXCEPT ![name] = EmptySince]
  /\ unplanned' = (unplanned \/ ~InPlanBody)
  /\ last' = [Call("testSuite", name, Null) EXCEPT !.replaced =
                 Has(plan.suites, name) /\ Get(plan.suites, name) # EmptySuite]
  /\ UNCHANGED <<passed_in_test_plan, test_plan_in_progress, test_suite_in_progress,
                 engine, emitted>>

\* The body of the innermost testPlan / testSuite call returns; neither method
\* does anything after its body.
Return ==
  /\ stack # <<>>
  /\ stack' = SubSeq(stack, 1, Len(stack) - 1)
  /\ last' = Call("return", stack[Len(stack)].name, stack[Len(stack)].kind)
  /\ UNCHANGED <<passed_in_test_plan, passed_in_test_suite, test_plan_in_progress,
                 test_suite_in_progress, plan, engine, emitted, calls, declared, fresh, since,
                 unplanned>>

\* ------------------------------------------------------- execution engine
\* One executed step: which slot (or "case") it came from and the function run.
Fired(slot, fn) == IF fn = Null THEN <<>> ELSE << [slot |-> slot, fn |-> fn] >>

RECURSIVE RunCases(_, _)
RunCases(suite, j) ==
  IF j > Len(suite.cases) THEN <<>>
  ELSE Fired("before_each_case_hook", suite.before_each_case_hook)
       \o Fired("case", suite.cases[j].testFn)
       \o Fired("after_each_case_hook", suite.after_each_case_hook)
       \o RunCases(suite, j + 1)

RECURSIVE RunSuites(_, _, _)
RunSuites(doc, keys, i) ==
  IF i > Len(keys) THEN <<>>
  ELSE LET suite == Get(doc.suites, keys[i])
       IN Fired("before_each_suite_hook", doc.before_each_suite_hook)
          \o Fired("before_all_case_hook", suite.before_all_case_hook)
          \o RunCases(suite, 1)
          \o Fired("after_all_case_hook", suite.after_all_case_hook)
          \o Fired("after_each_suite_hook", doc.after_each_suite_hook)
          \o RunSuites(doc, keys, i + 1)

\* The order of section 4.2 over the suites listed in keys.
RunOrder(doc, keys) ==
  Fired("before_all_suite_hook", doc.before_all_suite_hook)
  \o RunSuites(doc, keys, 1)
  \o Fired("after_all_suite_hook", doc.after_all_suite_hook)

\* The engine walks the suite map of the document it was given.
TestCase_run(doc) == RunOrder(doc, ObjectKeys(doc.suites))

\* run() passes this.plan itself, not a copy: the document the engine holds is
\* the builder's document.
EngineDocument == plan

run ==
  /\ calls' = calls + 1
  /\ engine' = [handed |-> TRUE, executed |-> TestCase_run(plan)]
  /\ last' = Call("run", "", Null)
  /\ UNCHANGED <<passed_in_test_plan, passed_in_test_suite, test_plan_in_progress,
                 test_suite_in_progress, plan, stack, declared, fresh, since, unplanned,
                 emitted>>

\* ------------------------------------------------------------ specification
\* Any builder method may be called at any point, inside or outside any body.
Next ==
  \/ \E name \in PlanNames : calls < MaxCalls /\ testPlan(name)
  \/ \E name \in SuiteNames : calls < MaxCalls /\ testSuite(name)
  \/ \E c \in Cases : calls < MaxCalls /\ testCase(c[1], c[2])
  \/ \E cb \in Callbacks : calls < MaxCalls /\ beforeEach(cb)
  \/ \E cb \in Callbacks : calls < MaxCalls /\ afterEach(cb)
  \/ \E cb \in Callbacks : calls < MaxCalls /\ afterAll(cb)
  \/ \E cb \in Callbacks : calls < MaxCalls /\ beforeAll(cb)
  \/ Return
  \/ calls < MaxCalls /\ run

Spec == Init /\ [][Next]_vars

\* A well-formed registration script: plans at top level, named suites directly
\* in a plan body, cases directly in a suite body, hooks in either, and run()
\* once every body has returned.
NextRun ==
  \/ \E name \in PlanNames \ {""} :
       calls < MaxRunCalls /\ stack = <<>> /\ testPlan(name)
  \/ \E name \in SuiteNames \ {""} :
       calls < MaxRunCalls /\ Len(stack) = 1 /\ testSuite(name)
  \/ \E c \in Cases :
       calls < MaxRunCalls /\ Len(stack) = 2 /\ testCase(c[1], c[2])
  \/ \E cb \in Callbacks : calls < MaxRunCalls /\ stack # <<>> /\ beforeEach(cb)
  \/ \E cb \in Callbacks : calls < MaxRunCalls /\ stack # <<>> /\ afterEach(cb)
  \/ \E cb \in Callbacks : calls < MaxRunCalls /\ stack # <<>> /\ afterAll(cb)
  \/ \E cb \in Callbacks : calls < MaxRunCalls /\ stack # <<>> /\ beforeAll(cb)
  \/ Return
  \/ calls < MaxRunCalls /\ stack = <<>> /\ run

SpecRun == Init /\ [][NextRun]_vars

\* Plan and suite names of the scripts that register several plans and suites.
NamedPlans == {"p", "q"}

NamedSuites == {"a", "1"}

\* A well-formed script of plans, suites and cases only, long enough to come
\* back to a plan name or a suite name used before.
NextNames ==
  \/ \E name \in NamedPlans :
       calls < MaxNameCalls /\ stack = <<>> /\ testPlan(name)
  \/ \E name \in NamedSuites :
       calls < MaxNameCalls /\ Len(stack) = 1 /\ testSuite(name)
  \/ \E c \in Cases :
       calls < MaxNameCalls /\ Len(stack) = 2 /\ testCase(c[1], c[2])
  \/ Return

SpecNames == Init /\ [][NextNames]_vars

TypeOK ==
  /\ passed_in_test_plan \in PlanNames \cup NamedPlans
  /\ passed_in_test_suite \in SuiteNames
  /\ calls \in 0..MaxNameCalls
  /\ Len(stack) <= MaxDepth

\* ------------------------------------------------------------ properties
\* The hook methods with the suite-level and plan-level slot each one writes.
HookOps ==
  { [op |-> "beforeEach", suiteField |-> "before_each_case_hook", planField |-> "before_each_suite_hook"],
    [op |-> "afterEach", suiteField |-> "after_each_case_hook", planField |-> "after_each_suite_hook"],
    [op |-> "afterAll", suiteField |-> "after_all_case_hook", planField |-> "after_all_suite_hook"],
    [op |-> "beforeAll", suiteField |-> "before_all_case_hook", planField |-> "before_all_suite_hook"] }

HookNames == {h.op : h \in HookOps}

PlanFields == {h.planField : h \in HookOps}

\* The step is a call of builder method op.
Stepped(op) == calls' = calls + 1 /\ last'.op = op

HookStepped == calls' = calls + 1 /\ last'.op \in HookNames

Keys(obj) == {obj[i].key : i \in 1..Len(obj)}

\* One plan body with only suite bodies nested in it.
WellNested ==
  /\ stack # <<>>
  /\ stack[1].kind = "testPlan"
  /\ \A i \in 2..Len(stack) : stack[i].kind = "testSuite"

\* C1: a hook registered in a plan body while no testSuite body is executing
\* goes to the plan-level slot of its kind and to no suite (stated for plans
\* with a non-empty name).
C1_PlanBodyHookBindsToPlan ==
  [][\A h \in HookOps :
       (Stepped(h.op) /\ InPlanBody /\ ~SuiteInProgress /\ Truthy(passed_in_test_plan))
         => /\ plan'[h.planField] = last'.fn
            /\ plan'.suites = plan.suites]_vars

\* C2: a hook registered while a testSuite body is executing goes to the slot
\* of its kind in the record of the innermost executing testSuite call, and
\* nowhere else (stated for non-empty plan and suite names, with the suite
\* bodies nested in one plan body, for a hook call that follows the return of
\* a testSuite call made inside that body).
C2_SuiteBodyHookBindsToInnermost ==
  [][\A h \in HookOps :
       (Stepped(h.op) /\ SuiteInProgress /\ WellNested
          /\ last.op = "return" /\ last.fn = "testSuite"
          /\ Truthy(passed_in_test_plan) /\ Truthy(InnermostSuite))
         => /\ Has(plan'.suites, InnermostSuite)
            /\ Get(plan'.suites, InnermostSuite)[h.suiteField] = last'.fn
            /\ \A f \in PlanFields : plan'[f] = plan[f]
            /\ \A n \in Keys(plan.suites) \ {InnermostSuite} :
                 Get(plan'.suites, n) = Get(plan.suites, n)]_vars

\* C3: when the body of a top-level testPlan call begins, the document has no
\* suites and no plan-level hooks (stated for a testPlan call that follows the
\* return of an earlier one, everything having been registered inside plan
\* bodies).
C3_PlanStartsFromResetDocument ==
  [][(Stepped("testPlan") /\ stack = <<>> /\ last.op = "return" /\ ~unplanned)
       => plan' = EmptyPlan]_vars

\* C4: run() executes plan beforeAll, then per suite in declaration order
\* (plan beforeEach, suite beforeAll, per case (suite beforeEach, case, suite
\* afterEach), suite afterAll, plan afterEach), then plan afterAll (stated
\* for run() called after all bodies have returned).
C4_RunFollowsDeclarationOrder ==
  (last.op = "run" /\ stack = <<>>) => engine.executed = RunOrder(plan, declared)

\* C5: testCase called while no testSuite body is executing raises and leaves
\* the plan document unchanged (stated for histories in which everything was
\* registered inside plan bodies).
C5_CaseOutsideSuiteRaises ==
  [][(Stepped("testCase") /\ ~SuiteInProgress /\ ~unplanned)
       => (last'.raised /\ plan' = plan)]_vars

\* The record of suite n holds exactly what was routed to it since its latest
\* testSuite call.
HoldsSince(n) ==
  LET rec == Get(plan.suites, n)
  IN /\ Len(rec.cases) = Len(since[n].cases)
     /\ \A i \in 1..Len(rec.cases) :
          <<rec.cases[i].name, rec.cases[i].testFn>> = since[n].cases[i]
     /\ rec.before_all_case_hook = since[n].hooks["before_all"]
     /\ rec.before_each_case_hook = since[n].hooks["before_each"]
     /\ rec.after_each_case_hook = since[n].hooks["after_each"]
     /\ rec.after_all_case_hook = since[n].hooks["after_all"]

\* C6: testSuite on a name that already has a record leaves that record with
\* no cases and no hooks, and from then on the record holds exactly the cases
\* and hooks of the latest registration, none of an earlier one.
C6_ReRegistrationReplaces ==
  [][/\ (Stepped("testSuite") /\ Has(plan.suites, last'.name))
          => Get(plan'.suites, last'.name) = EmptySuite
     /\ \A n \in Keys(plan'.suites) : HoldsSince(n)']_vars

C6_Witness ==
  /\ last.op = "testSuite"
  /\ last.replaced
  /\ Get(plan.suites, last.name) = EmptySuite

\* C7: a hook registered while no testPlan body is executing raises nothing
\* and changes nothing in the plan document (stated for a hook call made at
\* top level right after a body has returned).
C7_HookOutsidePlanIsNoOp ==
  [][(HookStepped /\ stack = <<>> /\ last.op = "return")
       => (~last'.raised /\ plan' = plan)]_vars

\* C8: when a testPlan body begins the cursor has no suite and names the new
\* plan, and a hook call never writes into a suite that was registered before
\* the latest testPlan call.
C8_CursorDoesNotLeak ==
  [][/\ Stepped("testPlan")
          => (passed_in_test_suite' = "" /\ passed_in_test_plan' = last'.name)
     /\ HookStepped
          => \A n \in Keys(plan.suites) \ fresh :
               Has(plan'.suites, n) /\ Get(plan'.suites, n) = Get(plan.suites, n)]_vars

C8_Witness ==
  /\ last.op \in HookNames
  /\ ~last.raised
  /\ ~unplanned
  /\ fresh = {}
  /\ stack = << [kind |-> "testPlan", name |-> "p"] >>
  /\ plan.suites # <<>>
  /\ \E f \in PlanFields : plan[f] = last.fn

\* C9: once run() has handed the document to the engine, no builder call
\* changes the document the engine holds (stated for calls made at top level).
C9_HandedDocumentImmutable ==
  [][(engine.handed /\ stack = <<>>) => EngineDocument' = EngineDocument]_vars

\* C10: a successful testCase appends one record with its name and testFn at
\* the end of the active suite's cases and touches no other record, so every
\* case list is the sequence of testCase calls made for it since its latest
\* registration.
C10_CasesAppendedInOrder ==
  [][/\ (Stepped("testCase") /\ ~last'.raised)
          => LET s == passed_in_test_suite
                 old == Get(plan.suites, s).cases
                 new == Get(plan'.suites, s).cases
             IN /\ Has(plan.suites, s)
                /\ Len(new) = Len(old) + 1
                /\ SubSeq(new, 1, Len(old)) = old
                /\ new[Len(new)].name = last'.name
                /\ new[Len(new)].testFn = last'.fn
                /\ \A n \in Keys(plan.suites) \ {s} :
                     Get(plan'.suites, n) = Get(plan.suites, n)
                /\ CreationOrder(plan'.suites) = CreationOrder(plan.suites)
     /\ \A n \in Keys(plan'.suites) :
          [i \in 1..Len(Get(plan'.suites, n).cases) |->
             <<Get(plan'.suites, n).cases[i].name, Get(plan'.suites, n).cases[i].testFn>>]
            = since'[n].cases]_vars

C10_Witness ==
  /\ last.op = "testCase"
  /\ ~last.raised
  /\ LET cs == Get(plan.suites, passed_in_test_suite).cases
     IN /\ Len(cs) >= 2
        /\ cs[Len(cs)].name = last.name
        /\ cs[1].name # cs[Len(cs)].name

\* C11: enumerating the suite map yields the suite names in the order in which
\* their testSuite calls were made (a name registered again keeps the place of
\* its first call).
C11_SuitesInDeclarationOrder ==
  ObjectKeys(plan.suites) = declared

\* ------------------------------------------------ properties of the names
\* The display name has the plan line / the suite line of the given name.
HasPlanHeader(newName, p) ==
  \E i \in 1..(Len(newName) - 1) : newName[i] = Lit("\n") /\ newName[i + 1] = Lit(p)

HasSuiteHeader(newName, s) ==
  \E i \in 1..(Len(newName) - 1) :
    /\ newName[i] \in {Lit("\n    "), Lit("    ")}
    /\ newName[i + 1] = Lit(s)

\* Display names computed under plan p, and those of them with the plan line.
NamesOfPlan(p) == {i \in 1..Len(emitted) : emitted[i].plan = p}

PlanHeaders(p) == {i \in NamesOfPlan(p) : HasPlanHeader(emitted[i].new_name, p)}

\* C12: among the display names computed under plans of one (non-empty) name,
\* exactly one has the plan line, also when a plan of another name was
\* registered in between.
C12_PlanHeaderOncePerName ==
  \A p \in NamedPlans : NamesOfPlan(p) # {} => Cardinality(PlanHeaders(p)) = 1

\* Display names computed under suite s, and those of them with the suite line.
NamesOfSuite(s) == {i \in 1..Len(emitted) : emitted[i].suite = s}

SuiteHeaders(s) == {i \in NamesOfSuite(s) : HasSuiteHeader(emitted[i].new_name, s)}

\* All display names so far were computed under one plan name.
OnePlanName == \A i \in 1..Len(emitted) : emitted[i].plan = emitted[1].plan

\* C13: inside one plan, among the display names computed under one suite
\* name exactly one has the suite line, whatever the number of cases and also
\* when cases of another suite were registered in between.
C13_SuiteHeaderOncePerName ==
  OnePlanName =>
    \A s \in NamedSuites : NamesOfSuite(s) # {} => Cardinality(SuiteHeaders(s)) = 1

SuiteFields == {h.suiteField : h \in HookOps}

\* C14: a hook registration changes no hook slot but the one of its own kind
\* in the scope it routes to, and leaves the case lists, the set of suite
\* names and the registration cursor as they were.
C14_HookChangesOneSlot ==
  [][\A h \in HookOps :
       Stepped(h.op) =>
         /\ passed_in_test_plan' = passed_in_test_plan
         /\ passed_in_test_suite' = passed_in_test_suite
         /\ CreationOrder(plan'.suites) = CreationOrder(plan.suites)
         /\ \A n \in Keys(plan.suites) :
              Get(plan'.suites, n).cases = Get(plan.suites, n).cases
         /\ \A f \in PlanFields :
              plan'[f] # plan[f] => (f = h.planField /\ plan'.suites = plan.suites)
         /\ \A n \in Keys(plan.suites) : \A f \in SuiteFields :
              Get(plan'.suites, n)[f] # Get(plan.suites, n)[f]
                => /\ f = h.suiteField
                   /\ n = passed_in_test_suite
                   /\ \A g \in PlanFields : plan'[g] = plan[g]
                   /\ \A m \in Keys(plan.suites) \ {n} :
                        Get(plan'.suites, m) = Get(plan.suites, m)]_vars

C14_Witness ==
  /\ last.op = "beforeAll"
  /\ Has(plan.suites, passed_in_test_suite)
  /\ LET rec == Get(plan.suites, passed_in_test_suite)
     IN /\ rec.before_all_case_hook = last.fn
        /\ rec.after_all_case_hook \notin {Null, last.fn}

\* C15: up to the start of its body, testSuite(name) changes the record of
\* name (no cases, no hooks) and the suite cursor (name) and nothing else: not
\* the records of the other suites, the plan-level hooks or the plan cursor.
C15_TestSuiteFrame ==
  [][Stepped("testSuite") =>
       LET name == last'.name
       IN /\ Get(plan'.suites, name) = EmptySuite
          /\ passed_in_test_suite' = name
          /\ Keys(plan'.suites) = Keys(plan.suites) \cup {name}
          /\ \A m \in Keys(plan.suites) \ {name} :
               Get(plan'.suites, m) = Get(plan.suites, m)
          /\ \A f \in PlanFields : plan'[f] = plan[f]
          /\ passed_in_test_plan' = passed_in_test_plan]_vars

C15_Witness ==
  /\ last.op = "testSuite"
  /\ Truthy(passed_in_test_plan)
  /\ \E m \in Keys(plan.suites) \ {last.name} : Get(plan.suites, m) # EmptySuite

\* C16: after every call, a non-empty suite cursor names a record of the
\* document, with a case list; and no hook registration raises.
C16_CursorSuiteHasRecord ==
  [][/\ Truthy(passed_in_test_suite') =>
          /\ Has(plan'.suites, passed_in_test_suite')
          /\ Len(Get(plan'.suites, passed_in_test_suite').cases) >= 0
     /\ HookStepped => ~last'.raised]_vars

\* A hook registered through a cursor left behind by a suite whose body has
\* returned.
C16_Witness ==
  /\ last.op \in HookNames
  /\ ~last.raised
  /\ Truthy(passed_in_test_plan) /\ Truthy(passed_in_test_suite)
  /\ Len(stack) <= 1
  /\ \E h \in HookOps :
       /\ h.op = last.op
       /\ Get(plan.suites, passed_in_test_suite)[h.suiteField] = last.fn

\* C17: a testCase call that raises changes neither the document, the cursor,
\* the formatter's markers nor the names computed so far; and a testCase call
\* that succeeds under a plan (suite) other than the one the markers hold
\* computes a name with the plan and suite lines (the suite line).
C17_RaisingCaseKeepsState ==
  [][Stepped("testCase") =>
       /\ last'.raised =>
            /\ plan' = plan
            /\ passed_in_test_plan' = passed_in_test_plan
            /\ passed_in_test_suite' = passed_in_test_suite
            /\ test_plan_in_progress' = test_plan_in_progress
            /\ test_suite_in_progress' = test_suite_in_progress
            /\ emitted' = emitted
       /\ ~last'.raised =>
            LET new_name == emitted'[Len(emitted')].new_name
            IN /\ test_plan_in_progress # passed_in_test_plan =>
                    /\ HasPlanHeader(new_name, passed_in_test_plan)
                    /\ HasSuiteHeader(new_name, passed_in_test_suite)
               /\ test_suite_in_progress # passed_in_test_suite =>
                    HasSuiteHeader(new_name, passed_in_test_suite)]_vars

\* A case raised inside a plan whose header has not been given out.
C17_Witness ==
  /\ last.op = "testCase"
  /\ last.raised
  /\ Truthy(passed_in_test_plan)
  /\ test_plan_in_progress # passed_in_test_plan

\* The case records the document retains, as pairs of suite name and index.
Retained ==
  {<<s, i>> \in Keys(plan.suites) \X (1..MaxNameCalls) :
     i <= Len(Get(plan.suites, s).cases)}

\* C18: in a document built under one plan name, every suite with at least
\* one case retains exactly one case whose display name has the suite line,
\* and if any case is retained exactly one retained case has the plan line.
C18_HeadersSurviveInDocument ==
  (OnePlanName /\ emitted # <<>> /\ emitted[1].plan = passed_in_test_plan) =>
    /\ \A s \in Keys(plan.suites) :
         LET cases == Get(plan.suites, s).cases
         IN Len(cases) >= 1 =>
              Cardinality({i \in 1..Len(cases) : HasSuiteHeader(cases[i].new_name, s)}) = 1
    /\ Retained # {} =>
         Cardinality({r \in Retained :
            HasPlanHeader(Get(plan.suites, r[1]).cases[r[2]].new_name,
                          passed_in_test_plan)}) = 1

\* C19: a hook registration that reaches a scope (a suite record or the plan
\* level) leaves the slot of its kind holding the callback just given, whatever
\* the slot held before; and if the slot already held that callback the
\* builder's state does not change.
C19_LastRegistrationWins ==
  [][\A h \in HookOps :
       Stepped(h.op) =>
         LET cb == last'.fn
             inSuite == Truthy(passed_in_test_plan) /\ Truthy(passed_in_test_suite)
             inPlan == Truthy(passed_in_test_plan) /\ ~Truthy(passed_in_test_suite)
         IN /\ inSuite =>
                 /\ Get(plan'.suites, passed_in_test_suite)[h.suiteField] = cb
                 /\ Get(plan.suites, passed_in_test_suite)[h.suiteField] = cb =>
                      plan' = plan
            /\ inPlan =>
                 /\ plan'[h.planField] = cb
                 /\ plan[h.planField] = cb => plan' = plan
            /\ passed_in_test_plan' = passed_in_test_plan
            /\ passed_in_test_suite' = passed_in_test_suite
            /\ test_plan_in_progress' = test_plan_in_progress
            /\ test_suite_in_progress' = test_suite_in_progress]_vars

\* A registration that displaced another callback of the same kind and scope.
C19_Witness ==
  /\ last.op \in HookNames
  /\ last.replaced
  /\ ~last.raised
  /\ \E h \in HookOps :
       /\ h.op = last.op
       /\ IF Truthy(passed_in_test_suite)
            THEN Get(plan.suites, passed_in_test_suite)[h.suiteField] = last.fn
            ELSE plan[h.planField] = last.fn

====
